---- MODULE Spec2Model ----
(***************************************************************************)
(* A model of atsuko's cli.py: the command registry (CLI), the command     *)
(* descriptor (Command) and the parameter descriptor (CommandParameter).   *)
(*                                                                         *)
(* Strings are sequences of one-character strings, so that the dash-casing *)
(* of a command name and the "--<name>" flag of an option are computed.    *)
(* Python values are records [ty, n, s, items]: ty is the runtime type,    *)
(* n the number of an int or a bool, s the text of a str, items the        *)
(* elements of a list.                                                     *)
(***************************************************************************)
EXTENDS Integers, Sequences, FiniteSets, TLC

VARIABLES
    commands,     \* CLI.commands: the dict, as the sequence of its Command values in insertion order
    registered,   \* history: the callable last handed to CLI.command under each dash-cased name
    replaced,     \* history: the name under which the last operation, a CLI.command, replaced a
                  \* Command, and whether that Command wrapped the same callable or another
    lastRun,      \* what CLI.run did when it was the last operation: tokens, outcome, log, calls made
    param_info,   \* the inspect.Parameter handed to CommandParameter.__init__
    parameter,    \* the CommandParameter built from param_info (or the exception raised)
    command,      \* a Command on its own: its name, its func and its cached parameters
    params,       \* the flat mapping handed to Command.split_parameters
    split,        \* the result of Command.split_parameters
    call          \* the result of Command.__call__(*args, **kwargs)

vars == <<commands, registered, replaced, lastRun, param_info, parameter, command, params, split, call>>

----------------------------------------------------------------------------
(* Bounds *)

MaxParams == 1        \* formal parameters of a registered callable
MaxSplitParams == 4   \* formal parameters of a callable whose arguments are reconstructed
MaxTokens == 2        \* tokens of a command line

----------------------------------------------------------------------------
(* Python values *)

PyNone == [ty |-> "NoneType", n |-> 0, s |-> <<>>, items |-> <<>>]
\* inspect._empty, the marker of "no default" and of "no annotation"
EMPTY == [ty |-> "_empty", n |-> 0, s |-> <<>>, items |-> <<>>]
PyBool(b) == [ty |-> "bool", n |-> IF b THEN 1 ELSE 0, s |-> <<>>, items |-> <<>>]
PyInt(i) == [ty |-> "int", n |-> i, s |-> <<>>, items |-> <<>>]
PyStr(str) == [ty |-> "str", n |-> 0, s |-> str, items |-> <<>>]
PyList(xs) == [ty |-> "list", n |-> 0, s |-> <<>>, items |-> xs]
PyTuple(xs) == [ty |-> "tuple", n |-> 0, s |-> <<>>, items |-> xs]

\* the value is missing where Python would have raised
NoValue == [ty |-> "<unset>", n |-> 0, s |-> <<>>, items |-> <<>>]

\* bool(value)
Truthy(v) ==
    CASE v.ty = "NoneType" -> FALSE
      [] v.ty = "bool" -> v.n = 1
      [] v.ty = "int" -> v.n # 0
      [] v.ty = "str" -> v.s # <<>>
      [] v.ty \in {"list", "tuple"} -> v.items # <<>>
      [] OTHER -> TRUE

----------------------------------------------------------------------------
(* Formal parameters (inspect.Parameter) and annotations *)

Kinds == {"POSITIONAL_ONLY", "POSITIONAL_OR_KEYWORD", "VAR_POSITIONAL",
          "KEYWORD_ONLY", "VAR_KEYWORD"}

\* an annotation: a ParameterAnnotation(name, type) (its description is left
\* out, its choices are None), a bare type, or any other object (a string, a
\* typing construct); inspect._empty, itself a class, stands for no annotation
ParameterAnnotation(name, type) == [tag |-> "ParameterAnnotation", name |-> name, type |-> type]
TypeMarker(type) == [tag |-> "type", name |-> <<>>, type |-> type]
OtherAnnotation == [tag |-> "object", name |-> <<>>, type |-> "object"]
NoAnnotation == TypeMarker("_empty")

\* the names of the formal parameters, by position
Letters == <<"a", "b", "c", "d", "e", "f", "g", "h">>
ParamName(i) == <<Letters[i]>>

\* inspect.Parameter
Formal(name, kind, default, annotation) ==
    [name |-> name, kind |-> kind, default |-> default, annotation |-> annotation]

KindRank(k) ==
    CASE k = "POSITIONAL_ONLY" -> 1
      [] k = "POSITIONAL_OR_KEYWORD" -> 2
      [] k = "VAR_POSITIONAL" -> 3
      [] k = "KEYWORD_ONLY" -> 4
      [] k = "VAR_KEYWORD" -> 5

IsVar(k) == k \in {"VAR_POSITIONAL", "VAR_KEYWORD"}
IsPositional(k) == k \in {"POSITIONAL_ONLY", "POSITIONAL_OR_KEYWORD"}

\* the signatures Python accepts: the kinds in order, one *args and one
\* **kwargs at most and neither with a default, no positional parameter
\* without default after one with a default
ValidSignature(sig) ==
    /\ \A i \in 1..Len(sig) : sig[i].name = ParamName(i)
    /\ \A i \in 1..Len(sig) : IsVar(sig[i].kind) => sig[i].default = EMPTY
    /\ \A i, j \in 1..Len(sig) : i < j =>
          /\ KindRank(sig[i].kind) <= KindRank(sig[j].kind)
          /\ IsVar(sig[i].kind) => sig[i].kind # sig[j].kind
          /\ (IsPositional(sig[i].kind) /\ IsPositional(sig[j].kind) /\ sig[i].default # EMPTY)
                => sig[j].default # EMPTY

\* the signatures of at most n parameters with the given kinds, defaults and annotations
Signatures(n, kinds, defaults, annotations) ==
    UNION {{sig \in {[i \in 1..k |-> Formal(ParamName(i), sh[i].kind, sh[i].default, sh[i].annotation)] :
                        sh \in [1..k -> [kind : kinds, default : defaults, annotation : annotations]]} :
                ValidSignature(sig)} : k \in 0..n}

----------------------------------------------------------------------------
(* CommandParameter *)

\* CommandParameter.__init__: pretty_name and type from the annotation, the
\* bare type or the default
PrettyName(pi) ==
    IF pi.annotation.tag = "ParameterAnnotation" THEN pi.annotation.name ELSE pi.name

\* the type taken from a default only when the default is truthy
AnnotatedTypeTruthyDefault(pi) ==
    IF pi.annotation.tag = "ParameterAnnotation" THEN pi.annotation.type
    ELSE IF pi.annotation.tag = "type" /\ pi.annotation # NoAnnotation THEN pi.annotation.type
    ELSE IF pi.default # EMPTY /\ Truthy(pi.default) THEN pi.default.ty
    ELSE "str"

AnnotatedType(pi) ==
    IF pi.annotation.tag = "ParameterAnnotation" THEN pi.annotation.type
    ELSE IF pi.annotation.tag = "type" /\ pi.annotation # NoAnnotation THEN pi.annotation.type
    ELSE IF pi.default # EMPTY /\ pi.default # PyNone THEN pi.default.ty
    ELSE "str"

\* CommandParameter.__init__: required, and the default
\* a None default taken for no default
IsRequiredNoneToo(pi) == pi.default \in {EMPTY, PyNone}

IsRequired(pi) == pi.default = EMPTY

DefaultOf(pi) == IF pi.default = EMPTY THEN PyNone ELSE pi.default

\* CommandParameter.__init__: the override for variable positional arguments
VarArgsOverride(pi, p) ==
    IF pi.kind = "VAR_POSITIONAL"
    THEN [p EXCEPT !.type = "_VarArgs", !.required = FALSE, !.default = PyList(<<>>)]
    ELSE p

\* the result of a constructor or of a call that raised exception e
RaisedParameter(pi, e) ==
    [exc |-> e, name |-> pi.name, pretty_name |-> <<>>, type |-> "none",
     required |-> FALSE, default |-> NoValue]

\* no check of the kind of the parameter
CommandParameterAnyKind(pi) ==
    VarArgsOverride(pi,
        [exc |-> "none", name |-> pi.name, pretty_name |-> PrettyName(pi),
         type |-> AnnotatedType(pi), required |-> IsRequired(pi), default |-> DefaultOf(pi)])

\* CommandParameter.__init__
CommandParameter(pi) ==
    IF pi.kind = "VAR_KEYWORD" THEN RaisedParameter(pi, "TypeError")
    ELSE VarArgsOverride(pi,
            [exc |-> "none", name |-> pi.name, pretty_name |-> PrettyName(pi),
             type |-> AnnotatedType(pi), required |-> IsRequired(pi), default |-> DefaultOf(pi)])

----------------------------------------------------------------------------
(* Command *)

\* the parameters in the reverse of the declaration order
BuildParametersReversed(sig, i) ==
    [k \in 1..(Len(sig) - i + 1) |-> CommandParameter(sig[Len(sig) - k + 1])]

RECURSIVE BuildParameters(_, _)
\* Command.parameters, the dict comprehension: the CommandParameter of each
\* formal parameter in order, up to the first that raises
BuildParameters(sig, i) ==
    IF i > Len(sig) THEN <<>>
    ELSE LET p == CommandParameter(sig[i])
         IN  IF p.exc # "none" THEN <<p>> ELSE <<p>> \o BuildParameters(sig, i + 1)

\* Command.parameters: the mapping, as the sequence of its values in order,
\* or the exception
Parameters(fn) ==
    LET ps == BuildParameters(fn.sig, 1)
    IN  IF \E i \in 1..Len(ps) : ps[i].exc # "none"
        THEN [exc |-> "TypeError", ps |-> <<>>]
        ELSE [exc |-> "none", ps |-> ps]

RECURSIVE RequiredArgs(_, _, _)
\* split_parameters: [params[name] for name, param in parameters if param.required]
RequiredArgs(ps, m, i) ==
    IF i > Len(ps) THEN <<>>
    ELSE (IF ps[i].required THEN <<m[ps[i].name]>> ELSE <<>>) \o RequiredArgs(ps, m, i + 1)

\* split_parameters: the names of the keyword arguments
IsKeyword(p) == ~p.required /\ p.type # "_VarArgs"

KeywordArgs(ps, m) ==
    [name \in {ps[i].name : i \in {j \in 1..Len(ps) : IsKeyword(ps[j])}} |-> m[name]]

\* the value of *args put before the required arguments
ExtendVarArgsFirst(args, ps, m, i) ==
    IF \E j \in i..Len(ps) : ps[j].type = "_VarArgs"
    THEN m[ps[CHOOSE j \in i..Len(ps) : ps[j].type = "_VarArgs"].name].items \o args
    ELSE args

RECURSIVE ExtendVarArgs(_, _, _, _)
\* split_parameters: the loop that extends args by the value of each
\* variable-positional parameter
ExtendVarArgs(args, ps, m, i) ==
    IF i > Len(ps) THEN args
    ELSE ExtendVarArgs(IF ps[i].type = "_VarArgs" THEN args \o m[ps[i].name].items ELSE args,
                       ps, m, i + 1)

\* Command.split_parameters; a key that params lacks is a KeyError
SplitParameters(ps, m) ==
    IF \E i \in 1..Len(ps) : ps[i].name \notin DOMAIN m
    THEN [exc |-> "KeyError", args |-> <<>>, kwargs |-> <<>>]
    ELSE [exc |-> "none",
          args |-> ExtendVarArgs(RequiredArgs(ps, m, 1), ps, m, 1),
          kwargs |-> KeywordArgs(ps, m)]

\* Command.__call__: the binding of func(*args, **kwargs) to the formal
\* parameters of func, as Python does it
NumPositional(sig) == Cardinality({i \in 1..Len(sig) : IsPositional(sig[i].kind)})
HasKind(sig, k) == \E i \in 1..Len(sig) : sig[i].kind = k

BindError(sig, args, kwargs) ==
    \/ Len(args) > NumPositional(sig) /\ ~HasKind(sig, "VAR_POSITIONAL")
    \/ \E k \in DOMAIN kwargs :
          /\ ~HasKind(sig, "VAR_KEYWORD")
          /\ ~\E i \in 1..Len(sig) :
                sig[i].name = k /\ sig[i].kind \in {"POSITIONAL_OR_KEYWORD", "KEYWORD_ONLY"}
    \/ \E i \in 1..Len(sig) :
          /\ sig[i].kind = "POSITIONAL_OR_KEYWORD"
          /\ i <= Len(args)
          /\ sig[i].name \in DOMAIN kwargs
    \/ \E i \in 1..Len(sig) :
          /\ ~IsVar(sig[i].kind)
          /\ ~(IsPositional(sig[i].kind) /\ i <= Len(args))
          /\ sig[i].name \notin DOMAIN kwargs
          /\ sig[i].default = EMPTY

BoundValue(sig, args, kwargs, i) ==
    CASE sig[i].kind = "VAR_POSITIONAL" ->
            PyTuple(SubSeq(args, NumPositional(sig) + 1, Len(args)))
      [] sig[i].kind = "VAR_KEYWORD" -> NoValue
      [] IsPositional(sig[i].kind) /\ i <= Len(args) -> args[i]
      [] OTHER -> IF sig[i].name \in DOMAIN kwargs THEN kwargs[sig[i].name] ELSE sig[i].default

Bind(sig, args, kwargs) ==
    IF BindError(sig, args, kwargs)
    THEN [exc |-> "TypeError", bound |-> <<>>]
    ELSE [exc |-> "none", bound |-> [i \in 1..Len(sig) |-> BoundValue(sig, args, kwargs, i)]]

----------------------------------------------------------------------------
(* The parameter descriptor on its own: one inspect.Parameter, one           *)
(* CommandParameter                                                          *)

\* the idle values of the variables a specification does not use
NoRun == [args |-> <<>>, parsed |-> FALSE, ns |-> <<>>, outcome |-> "none", value |-> NoValue,
          logged |-> <<>>, calls |-> <<>>]
NoParamInfo == Formal(<<>>, "none", EMPTY, NoAnnotation)
NotBuilt == RaisedParameter(NoParamInfo, "not built")
NoFunc == [name |-> <<>>, sig |-> <<>>]
NothingReplaced == [name |-> <<>>, callable |-> "none"]
\* the cached_property parameters before its first use
NotCached == [exc |-> "not cached", ps |-> <<>>]
NoCommand == [name |-> <<>>, func |-> NoFunc, parameters |-> NotCached]
NoSplit == [exc |-> "not split", args |-> <<>>, kwargs |-> <<>>]
NoCall == [exc |-> "not called", bound |-> <<>>]

ParamDefaults == {EMPTY, PyNone, PyBool(TRUE), PyBool(FALSE), PyInt(5), PyStr(<<"x">>)}
ParamAnnotations ==
    {NoAnnotation, OtherAnnotation, TypeMarker("int"), TypeMarker("bool"),
     ParameterAnnotation(<<"A">>, "str"), ParameterAnnotation(<<"A">>, "bool")}

\* every inspect.Parameter of a one-parameter signature
ParamInfos ==
    {sig[1] : sig \in {s1 \in Signatures(1, Kinds, ParamDefaults, ParamAnnotations) : Len(s1) = 1}}

InitParam ==
    /\ param_info \in ParamInfos
    /\ parameter = NotBuilt
    /\ commands = <<>>
    /\ registered = <<>>
    /\ replaced = NothingReplaced
    /\ lastRun = NoRun
    /\ command = NoCommand
    /\ params = <<>>
    /\ split = NoSplit
    /\ call = NoCall

\* CommandParameter(param_info)
Construct ==
    /\ parameter = NotBuilt
    /\ parameter' = CommandParameter(param_info)
    /\ UNCHANGED <<commands, registered, replaced, lastRun, param_info, command, params, split, call>>

NextParam == Construct

SpecParam == InitParam /\ [][NextParam]_vars

----------------------------------------------------------------------------
(* The command descriptor on its own: one Command, one flat mapping          *)

\* @dataclass Command(name, func)
Command(name, fn) == [name |-> name, func |-> fn, parameters |-> NotCached]

\* the cached_property: what a use of command.parameters yields, and the
\* command afterwards (an exception leaves nothing cached)
GetParameters(cmd) ==
    IF cmd.parameters # NotCached THEN cmd.parameters ELSE Parameters(cmd.func)

WithParameters(cmd) ==
    IF GetParameters(cmd).exc = "none" THEN [cmd EXCEPT !.parameters = GetParameters(cmd)] ELSE cmd

SplitDefaults == {EMPTY, PyInt(5)}
SplitValues == {PyInt(1), PyInt(2), PyInt(7)}
SplitName == <<"f">>

SplitFuncs ==
    {[name |-> SplitName, sig |-> sig] :
        sig \in Signatures(MaxSplitParams, Kinds, SplitDefaults, {NoAnnotation})}

RestLists == {<<>>, <<PyInt(9)>>, <<PyInt(9), PyInt(10)>>}

VersionKey == <<"v", "e", "r", "s", "i", "o", "n">>

\* the flat mappings with a value for each parameter of sig, a list for
\* *args, next to the version key of the top-level parser
Mappings(sig) ==
    {[name \in {sig[i].name : i \in 1..Len(sig)} \cup {VersionKey} |->
        IF name = VersionKey THEN PyBool(FALSE)
        ELSE LET i == CHOOSE j \in 1..Len(sig) : sig[j].name = name
             IN  IF sig[i].kind = "VAR_POSITIONAL" THEN PyList(rest) ELSE v[i]] :
        v \in [1..Len(sig) -> SplitValues], rest \in RestLists}

InitCmd ==
    /\ \E fn \in SplitFuncs :
          /\ command = Command(fn.name, fn)
          /\ params \in Mappings(fn.sig)
    /\ split = NoSplit
    /\ call = NoCall
    /\ commands = <<>>
    /\ registered = <<>>
    /\ replaced = NothingReplaced
    /\ lastRun = NoRun
    /\ param_info = NoParamInfo
    /\ parameter = NotBuilt

\* a first use of command.parameters
UseParameters ==
    /\ command.parameters = NotCached
    /\ GetParameters(command).exc = "none"
    /\ command' = WithParameters(command)
    /\ UNCHANGED <<commands, registered, replaced, lastRun, param_info, parameter, params, split, call>>

\* command.split_parameters(params)
Split ==
    /\ split = NoSplit
    /\ command' = WithParameters(command)
    /\ split' = IF GetParameters(command).exc # "none"
                THEN [exc |-> GetParameters(command).exc, args |-> <<>>, kwargs |-> <<>>]
                ELSE SplitParameters(GetParameters(command).ps, params)
    /\ UNCHANGED <<commands, registered, replaced, lastRun, param_info, parameter, params, call>>

\* command(*args, **kwargs) with the result of split_parameters
Call ==
    /\ split.exc = "none"
    /\ call = NoCall
    /\ call' = Bind(command.func.sig, split.args, split.kwargs)
    /\ UNCHANGED <<commands, registered, replaced, lastRun, param_info, parameter, command, params, split>>

NextCmd == UseParameters \/ Split \/ Call

SpecCmd == InitCmd /\ [][NextCmd]_vars

----------------------------------------------------------------------------
(* The external parser (argparse) as CLI.parse configures it                 *)

Dash == "-"
IsFlag(tok) == Len(tok) > 0 /\ tok[1] = Dash

\* f"--{param.name}"
OptionString(p) == <<Dash, Dash>> \o p.name

VersionFlags == {<<Dash, "v">>, <<Dash, Dash>> \o VersionKey}

DigitValue == [d \in {"0", "1", "2", "3", "4", "5", "6", "7", "8", "9"} |->
                CASE d = "0" -> 0 [] d = "1" -> 1 [] d = "2" -> 2 [] d = "3" -> 3 [] d = "4" -> 4
                  [] d = "5" -> 5 [] d = "6" -> 6 [] d = "7" -> 7 [] d = "8" -> 8 [] d = "9" -> 9]

RECURSIVE ToInt(_, _)
ToInt(word, acc) ==
    IF word = <<>> THEN acc ELSE ToInt(Tail(word), 10 * acc + DigitValue[Head(word)])

\* type=param.type: the conversion of a token by the type of the parameter;
\* NoValue when the type refuses the token
Coerce(type, word) ==
    CASE type = "str" -> PyStr(word)
      [] type = "bool" -> PyBool(word # <<>>)
      [] type = "int" ->
            IF word # <<>> /\ \A i \in 1..Len(word) : word[i] \in DOMAIN DigitValue
            THEN PyInt(ToInt(word, 0)) ELSE NoValue
      [] OTHER -> NoValue

\* the value of an option that the command line does not give: the flipped
\* switch of store_true / store_false, else default=param.default (which
\* argparse converts when it is a string)
AbsentValue(p) ==
    IF p.type = "bool" THEN PyBool(Truthy(p.default))
    ELSE IF p.default.ty = "str" THEN Coerce(p.type, p.default.s)
    ELSE p.default

\* the value of the option that the head of toks names, and the tokens it takes
OptionValue(p, toks) ==
    IF p.type = "bool" THEN PyBool(~Truthy(p.default))
    ELSE IF Len(toks) < 2 \/ IsFlag(toks[2]) THEN NoValue
    ELSE Coerce(p.type, toks[2])

OptionWidth(p) == IF p.type = "bool" THEN 1 ELSE 2

ParseExit(code) == [exit |-> code, ns |-> <<>>]

RECURSIVE ParseOptions(_, _, _)
\* the options at the head of the tokens of a sub-parser: the namespace
\* entries they set and the tokens left, or the exit
ParseOptions(ps, toks, seen) ==
    IF toks = <<>> \/ ~IsFlag(Head(toks)) THEN [exit |-> -1, seen |-> seen, rest |-> toks]
    ELSE LET match == {i \in 1..Len(ps) : IsKeyword(ps[i]) /\ OptionString(ps[i]) = Head(toks)}
         IN  IF match = {} THEN [exit |-> 2, seen |-> seen, rest |-> toks]
             ELSE LET p == ps[CHOOSE i \in match : TRUE]
                      v == OptionValue(p, toks)
                  IN  IF v = NoValue THEN [exit |-> 2, seen |-> seen, rest |-> toks]
                      ELSE ParseOptions(ps, SubSeq(toks, OptionWidth(p) + 1, Len(toks)),
                                        [n \in DOMAIN seen \cup {p.name} |->
                                            IF n = p.name THEN v ELSE seen[n]])

\* the positional arguments of a sub-parser: the parameters that are required
\* or variable-positional, in order
IsPositionalArg(p) == p.type = "_VarArgs" \/ p.required

\* the words of a contiguous block that the i-th parameter takes: one for a
\* required parameter, all that the later required parameters leave for *args
PositionalStart(ps, words, i) ==
    IF \E j \in 1..(i - 1) : ps[j].type = "_VarArgs"
    THEN Len(words) - Cardinality({j \in i..Len(ps) : ps[j].required}) + 1
    ELSE Cardinality({j \in 1..(i - 1) : ps[j].required}) + 1

PositionalValue(ps, words, i) ==
    IF ps[i].type = "_VarArgs"
    THEN LET first == Cardinality({j \in 1..(i - 1) : ps[j].required}) + 1
             last == Len(words) - Cardinality({j \in (i + 1)..Len(ps) : ps[j].required})
         IN  PyList([k \in 1..(last - first + 1) |-> PyStr(words[first + k - 1])])
    ELSE Coerce(ps[i].type, words[PositionalStart(ps, words, i)])

\* the sub-parser of a command on the tokens after its name, for the command
\* lines of Inputs: the options come first, the words after them in one block
ParseCommand(ps, toks) ==
    LET opts == ParseOptions(ps, toks, <<>>)
        words == opts.rest
        required == Cardinality({i \in 1..Len(ps) : ps[i].required})
        variadic == \E i \in 1..Len(ps) : ps[i].type = "_VarArgs"
    IN  IF opts.exit # -1 THEN ParseExit(opts.exit)
        ELSE IF \E k \in 1..Len(words) : IsFlag(words[k]) THEN ParseExit(2)
        ELSE IF Len(words) < required \/ (~variadic /\ Len(words) > required) THEN ParseExit(2)
        ELSE IF \E i \in 1..Len(ps) : IsPositionalArg(ps[i]) /\ PositionalValue(ps, words, i) = NoValue
             THEN ParseExit(2)
        ELSE [exit |-> -1,
              ns |-> [n \in {ps[i].name : i \in 1..Len(ps)} |->
                        LET i == CHOOSE j \in 1..Len(ps) : ps[j].name = n
                        IN  IF IsPositionalArg(ps[i]) THEN PositionalValue(ps, words, i)
                            ELSE IF n \in DOMAIN opts.seen THEN opts.seen[n]
                            ELSE AbsentValue(ps[i])]]

----------------------------------------------------------------------------
(* CLI *)

\* func.__name__.replace('_', '-')
Normalize(name) == [i \in 1..Len(name) |-> IF name[i] = "_" THEN Dash ELSE name[i]]

\* self.commands.get(name, None): the position of the command, 0 for None
Lookup(cmds, name) ==
    IF \E i \in 1..Len(cmds) : cmds[i].name = name
    THEN CHOOSE i \in 1..Len(cmds) : cmds[i].name = name
    ELSE 0

\* self.commands.setdefault(name, cmd): the first registration is kept
DictSetKeepFirst(cmds, name, cmd) ==
    IF Lookup(cmds, name) = 0 THEN Append(cmds, cmd) ELSE cmds

\* self.commands[name] = cmd: a key that exists keeps its place in the dict
DictSet(cmds, name, cmd) ==
    IF Lookup(cmds, name) = 0 THEN Append(cmds, cmd)
    ELSE [cmds EXCEPT ![Lookup(cmds, name)] = cmd]

\* CLI.parse, the loop over self.commands.values(): the first command whose
\* parameters raise (0 when none does), and the commands once the loop has
\* cached the parameters of those before it
FirstRaising(cmds) ==
    IF \E i \in 1..Len(cmds) : GetParameters(cmds[i]).exc # "none"
    THEN CHOOSE i \in 1..Len(cmds) :
            /\ GetParameters(cmds[i]).exc # "none"
            /\ \A j \in 1..(i - 1) : GetParameters(cmds[j]).exc = "none"
    ELSE 0

AfterParse(cmds) ==
    LET raising == FirstRaising(cmds)
    IN  [i \in 1..Len(cmds) |->
            IF raising = 0 \/ i < raising THEN WithParameters(cmds[i]) ELSE cmds[i]]

RECURSIVE TopLevel(_, _)
\* the top-level parser before the sub-command: -v/--version set the flag, any
\* other flag is an error, the first word goes to the sub-parsers
TopLevel(toks, version) ==
    IF toks = <<>> \/ ~IsFlag(Head(toks)) THEN [exit |-> -1, version |-> version, rest |-> toks]
    ELSE IF Head(toks) \in VersionFlags THEN TopLevel(Tail(toks), TRUE)
    ELSE [exit |-> 2, version |-> version, rest |-> toks]

\* a parser whose sub-command is free text: a first word that names no command
\* selects none
ParseArgsUnmatchedIsNoCommand(cmds, args) ==
    LET top == TopLevel(args, FALSE)
        topns == [n \in {VersionKey} |-> PyBool(top.version)]
    IN  IF top.exit # -1 THEN ParseExit(top.exit)
        ELSE IF top.rest = <<>> \/ Lookup(cmds, Head(top.rest)) = 0 THEN [exit |-> -1, ns |-> topns]
        ELSE LET sub == ParseCommand(cmds[Lookup(cmds, Head(top.rest))].parameters.ps, Tail(top.rest))
             IN  IF sub.exit # -1 THEN ParseExit(sub.exit)
                 ELSE [exit |-> -1,
                       ns |-> [n \in DOMAIN sub.ns \cup {VersionKey} |->
                                 IF n \in DOMAIN sub.ns THEN sub.ns[n] ELSE topns[n]]]

\* parser.parse_args(args) on the parser CLI.parse builds: the namespace, or
\* the exit status of the parser's error
ParseArgs(cmds, args) ==
    LET top == TopLevel(args, FALSE)
        topns == [n \in {VersionKey} |-> PyBool(top.version)]
    IN  IF top.exit # -1 THEN ParseExit(top.exit)
        ELSE IF top.rest = <<>> THEN [exit |-> -1, ns |-> topns]
        ELSE IF Lookup(cmds, Head(top.rest)) = 0 THEN ParseExit(2)
        ELSE LET sub == ParseCommand(cmds[Lookup(cmds, Head(top.rest))].parameters.ps, Tail(top.rest))
             IN  IF sub.exit # -1 THEN ParseExit(sub.exit)
                 ELSE [exit |-> -1,
                       ns |-> [n \in DOMAIN sub.ns \cup {VersionKey} |->
                                 IF n \in DOMAIN sub.ns THEN sub.ns[n] ELSE topns[n]]]

\* self.version
Version == PyStr(<<"1", ".", "0", ".", "0">>)

\* what a run did: the namespace of the parser when it returned one, how the
\* run ended (returned, raised, exit) and with what, the messages logged, the
\* calls of wrapped callables
Outcome(args, outcome, value, logged, calls) ==
    [args |-> args, parsed |-> FALSE, ns |-> <<>>, outcome |-> outcome, value |-> value,
     logged |-> logged, calls |-> calls]

Parsed(ns, run) == [run EXCEPT !.parsed = TRUE, !.ns = ns]

\* the exception or the exit status that ends a run
Exception(e) == [ty |-> e, n |-> 0, s |-> <<>>, items |-> <<>>]

\* what a wrapped callable does once called: return a value, or raise
Bodies == {[exc |-> "none", ret |-> PyInt(42)], [exc |-> "RuntimeError", ret |-> NoValue]}

\* a run that hands the result of the wrapped callable back to its caller
InvokeReturningResult(run, body) ==
    IF run.calls = <<>> \/ run.calls[1].exc # "none" THEN run
    ELSE IF body.exc # "none"
         THEN [run EXCEPT !.outcome = "raised", !.value = Exception(body.exc),
                          !.calls = <<[run.calls[1] EXCEPT !.exc = body.exc]>>]
         ELSE [run EXCEPT !.outcome = "returned", !.value = body.ret,
                          !.calls = <<[run.calls[1] EXCEPT !.ret = body.ret]>>]

\* CLI.run, the statement command(*args, **kwargs) once the arguments are
\* bound: body is what the wrapped callable does; its exception ends the run,
\* its result is dropped
Invoke(run, body) ==
    IF run.calls = <<>> \/ run.calls[1].exc # "none" THEN run
    ELSE IF body.exc # "none"
         THEN [run EXCEPT !.outcome = "raised", !.value = Exception(body.exc),
                          !.calls = <<[run.calls[1] EXCEPT !.exc = body.exc]>>]
         ELSE [run EXCEPT !.outcome = "returned", !.value = PyNone,
                          !.calls = <<[run.calls[1] EXCEPT !.ret = body.ret]>>]

\* CLI.run, after the parser returned argns: command detection, the
\* no-command case, the split of the namespace and the binding of the call
Execute(cmds, args, ns) ==
    LET at == Lookup(cmds, args[1])
    IN  IF at = 0
        THEN Outcome(args, "returned", PyNone,
                     IF Truthy(ns[VersionKey]) THEN <<Version>> ELSE <<>>, <<>>)
        ELSE LET sp == SplitParameters(cmds[at].parameters.ps, ns)
                 bd == Bind(cmds[at].func.sig, sp.args, sp.kwargs)
                 made == [func |-> cmds[at].func, args |-> sp.args, kwargs |-> sp.kwargs,
                          exc |-> bd.exc, ret |-> NoValue]
             IN  IF sp.exc # "none" THEN Outcome(args, "raised", Exception(sp.exc), <<>>, <<>>)
                 ELSE IF bd.exc # "none"
                      THEN Outcome(args, "raised", Exception(bd.exc), <<>>, <<made>>)
                 ELSE Outcome(args, "returned", PyNone, <<>>, <<made>>)

\* CLI.run up to the call of the wrapped callable: the help of the empty
\* command line (self.parser is an attribute that CLI never sets), else parse
\* (raising is the first command whose parameters raise, after the commands
\* once parse has derived the parameters), then the rest
RunResult(cmds, raising, after, args) ==
    IF args = <<>> THEN Outcome(args, "raised", Exception("AttributeError"), <<>>, <<>>)
    ELSE IF raising # 0
         THEN Outcome(args, "raised", Exception(GetParameters(cmds[raising]).exc), <<>>, <<>>)
    ELSE LET argns == ParseArgs(after, args)
         IN  IF argns.exit # -1 THEN Outcome(args, "exit", PyInt(argns.exit), <<>>, <<>>)
             ELSE Parsed(argns.ns, Execute(after, args, argns.ns))

----------------------------------------------------------------------------
(* The registry: registrations and runs                                      *)

FuncNames == {<<"l", "s">>, <<"d", "o", "_", "i", "t">>}
MainKinds == {"POSITIONAL_OR_KEYWORD", "VAR_POSITIONAL", "VAR_KEYWORD"}
MainDefaults == {EMPTY, PyInt(5)}

\* the callables handed to CLI.command
Funcs ==
    {[name |-> name, sig |-> sig] :
        name \in FuncNames, sig \in Signatures(MaxParams, MainKinds, MainDefaults, {NoAnnotation})}

Words == {<<"7">>, <<"x">>}
FirstWords == {Normalize(name) : name \in FuncNames} \cup {<<"d", "o", "_", "i", "t">>}
Flags == {OptionString([name |-> ParamName(i)]) : i \in 1..MaxParams}

\* the command lines: the version flag or not, then nothing, an option flag,
\* or a first word with an option flag or not and words
Inputs ==
    {line \in {top \o rest :
                  top \in {<<>>, <<(<<Dash, "v">>)>>},
                  rest \in {<<>>} \cup {<<f>> : f \in Flags} \cup
                           {<<first>> \o flag \o words :
                              first \in FirstWords,
                              flag \in {<<>>} \cup {<<f>> : f \in Flags},
                              words \in UNION {[1..k -> Words] : k \in 0..MaxTokens}}} :
        Len(line) <= MaxTokens}

Init ==
    /\ commands = <<>>
    /\ registered = <<>>
    /\ replaced = NothingReplaced
    /\ lastRun = NoRun
    /\ param_info = NoParamInfo
    /\ parameter = NotBuilt
    /\ command = NoCommand
    /\ params = <<>>
    /\ split = NoSplit
    /\ call = NoCall

\* CLI.command(fn)
Register(fn) ==
    /\ commands' = DictSet(commands, Normalize(fn.name), Command(Normalize(fn.name), fn))
    /\ registered' = [n \in DOMAIN registered \cup {Normalize(fn.name)} |->
                        IF n = Normalize(fn.name) THEN fn ELSE registered[n]]
    /\ replaced' = IF Lookup(commands, Normalize(fn.name)) = 0 THEN NothingReplaced
                   ELSE [name |-> Normalize(fn.name),
                         callable |-> IF commands[Lookup(commands, Normalize(fn.name))].func = fn
                                      THEN "same" ELSE "another"]
    /\ lastRun' = NoRun
    /\ UNCHANGED <<param_info, parameter, command, params, split, call>>

\* CLI.run(args)
Run(args) ==
    LET raising == FirstRaising(commands)
        after == AfterParse(commands)
        run == RunResult(commands, raising, after, args)
    IN  /\ commands' = IF args = <<>> THEN commands ELSE after
        /\ lastRun' \in {Invoke(run, body) : body \in Bodies}
        /\ replaced' = NothingReplaced
        /\ UNCHANGED <<registered, param_info, parameter, command, params, split, call>>

Next ==
    \/ \E fn \in Funcs : Register(fn)
    \/ \E args \in Inputs : Run(args)

Spec == Init /\ [][Next]_vars

----------------------------------------------------------------------------
(* Properties of CLI.run and CLI.command, under Spec                         *)

\* a run was the last operation
Ran == lastRun.outcome # "none"

\* C1: a run of the empty token list returns normally and calls no wrapped
\* callable, whatever the registry holds.
C1_EmptyRunReturns ==
    (Ran /\ lastRun.args = <<>>) =>
        (lastRun.outcome = "returned" /\ lastRun.calls = <<>>)

\* the first token of the last run is no flag and names no registered command
UnmatchedWord ==
    /\ Ran
    /\ lastRun.args # <<>>
    /\ ~IsFlag(lastRun.args[1])
    /\ Lookup(commands, lastRun.args[1]) = 0

\* C2 as stated: a run whose first token is no flag and names no registered
\* command returns normally and calls no wrapped callable.
C2_UnmatchedReturns ==
    UnmatchedWord => (lastRun.outcome = "returned" /\ lastRun.calls = <<>>)

\* C2 amended: such a run calls no wrapped callable and logs nothing, and it
\* does not return: the parser ends it with exit status 2, unless the
\* parameters of a registered command raise first.
C2_UnmatchedExits ==
    UnmatchedWord =>
        /\ lastRun.calls = <<>>
        /\ lastRun.logged = <<>>
        /\ ~lastRun.parsed
        /\ lastRun.outcome \in {"exit", "raised"}
        /\ lastRun.outcome = "exit" => lastRun.value = PyInt(2)
        /\ lastRun.outcome = "raised" =>
              /\ lastRun.value = Exception("TypeError")
              /\ \E i \in 1..Len(commands) : HasKind(commands[i].func.sig, "VAR_KEYWORD")

\* the run of a callable's own name, not dash-cased, while its command is
\* registered: exit status 2
C2_Witness ==
    /\ UnmatchedWord
    /\ Lookup(commands, Normalize(lastRun.args[1])) # 0
    /\ lastRun.outcome = "exit"
    /\ lastRun.value = PyInt(2)

\* C3 as stated: no command of the registry wraps a callable with a
\* variable-keyword parameter.
C3_NoVarKeywordStored ==
    \A i \in 1..Len(commands) : ~HasKind(commands[i].func.sig, "VAR_KEYWORD")

\* C3 amended: a command that wraps a callable with a variable-keyword
\* parameter is stored, never holds derived parameters, and makes every run of
\* a non-empty token list raise TypeError without calling anything; the
\* parameters a command holds have no variable-keyword parameter among them.
C3_VarKeywordRaisesOnUse ==
    /\ \A i \in 1..Len(commands) :
          HasKind(commands[i].func.sig, "VAR_KEYWORD") => commands[i].parameters = NotCached
    /\ \A i \in 1..Len(commands) :
          commands[i].parameters # NotCached =>
              /\ commands[i].parameters.exc = "none"
              /\ Len(commands[i].parameters.ps) = Len(commands[i].func.sig)
              /\ \A k \in 1..Len(commands[i].parameters.ps) : commands[i].parameters.ps[k].exc = "none"
    /\ (Ran /\ lastRun.args # <<>> /\
        \E i \in 1..Len(commands) : HasKind(commands[i].func.sig, "VAR_KEYWORD")) =>
            /\ lastRun.outcome = "raised"
            /\ lastRun.value = Exception("TypeError")
            /\ lastRun.calls = <<>>

\* a command with a variable-keyword parameter is registered, and a run of the
\* name of another registered command raised TypeError
C3_Witness ==
    /\ \E i \in 1..Len(commands) : HasKind(commands[i].func.sig, "VAR_KEYWORD")
    /\ Ran
    /\ lastRun.args # <<>>
    /\ Lookup(commands, lastRun.args[1]) # 0
    /\ ~HasKind(commands[Lookup(commands, lastRun.args[1])].func.sig, "VAR_KEYWORD")
    /\ lastRun.outcome = "raised"

\* the parser returned a namespace and the first token names a registered command
Matched == lastRun.parsed /\ Lookup(commands, lastRun.args[1]) # 0

\* C5 as stated: when the first token names a registered command and the
\* parser succeeds, the wrapped callable is called once and the run returns the
\* value the callable returned.
C5_ReturnsCallableResult ==
    Matched =>
        /\ Len(lastRun.calls) = 1
        /\ lastRun.calls[1].exc = "none" =>
              (lastRun.outcome = "returned" /\ lastRun.value = lastRun.calls[1].ret)

\* C5 amended: the wrapped callable of that command is called once, with the
\* arguments split_parameters makes of the namespace; when the call returns the
\* run returns None, when the call raises the run raises the same exception.
C5_CallsOnceReturnsNone ==
    Matched =>
        /\ Len(lastRun.calls) = 1
        /\ lastRun.calls[1].func = commands[Lookup(commands, lastRun.args[1])].func
        /\ lastRun.calls[1].args =
              SplitParameters(commands[Lookup(commands, lastRun.args[1])].parameters.ps, lastRun.ns).args
        /\ lastRun.calls[1].kwargs =
              SplitParameters(commands[Lookup(commands, lastRun.args[1])].parameters.ps, lastRun.ns).kwargs
        /\ lastRun.calls[1].exc = "none" => (lastRun.outcome = "returned" /\ lastRun.value = PyNone)
        /\ lastRun.calls[1].exc # "none" =>
              (lastRun.outcome = "raised" /\ lastRun.value = Exception(lastRun.calls[1].exc))

\* a matched run whose callable took an argument and returned 42: the run returned None
C5_Witness ==
    /\ Matched
    /\ Len(lastRun.calls) = 1
    /\ lastRun.calls[1].args # <<>>
    /\ lastRun.calls[1].exc = "none"
    /\ lastRun.calls[1].ret = PyInt(42)
    /\ lastRun.outcome = "returned"
    /\ lastRun.value = PyNone

\* C9: the registry has one command for each dash-cased name registered, which
\* wraps the callable registered last under that name; a registration that
\* replaces a command leaves the number of commands as it was; a run calls
\* only the callable registered last under its first token.
C9_LastRegistrationWins ==
    /\ {commands[i].name : i \in 1..Len(commands)} = DOMAIN registered
    /\ \A i, j \in 1..Len(commands) : commands[i].name = commands[j].name => i = j
    /\ \A i \in 1..Len(commands) :
          /\ commands[i].func = registered[commands[i].name]
          /\ Len(commands[i].name) = Len(commands[i].func.name)
          /\ \A k \in 1..Len(commands[i].name) :
                commands[i].name[k] =
                    (IF commands[i].func.name[k] = "_" THEN "-" ELSE commands[i].func.name[k])
    /\ \A k \in 1..Len(lastRun.calls) : lastRun.calls[k].func = registered[lastRun.args[1]]
    /\ Len(commands) <= Cardinality(FuncNames)

\* a registration has just replaced the command of another callable under a
\* name with an underscore, next to a command under another name
C9_Witness ==
    /\ replaced.callable = "another"
    /\ Len(commands) = 2
    /\ \E i \in 1..Len(commands) :
          /\ commands[i].name = replaced.name
          /\ commands[i].name # commands[i].func.name
          /\ commands[i].func = registered[commands[i].name]

----------------------------------------------------------------------------
(* Properties of CommandParameter, under SpecParam                           *)

Built == parameter.exc = "none"

HasTypeAnnotation(pi) ==
    \/ pi.annotation.tag = "ParameterAnnotation"
    \/ pi.annotation.tag = "type" /\ pi.annotation # NoAnnotation

\* C6 as stated: a parameter whose default is True or False has type bool, is
\* not required and keeps that default, whatever its annotation.
C6_BoolDefaultIsBool ==
    (Built /\ param_info.default \in {PyBool(TRUE), PyBool(FALSE)}) =>
        /\ parameter.type = "bool"
        /\ ~parameter.required
        /\ parameter.default = param_info.default

\* C6 amended: such a parameter is not required and keeps that default; its
\* type is bool when it carries neither a ParameterAnnotation nor a bare type,
\* and the type of the annotation when it carries one.
C6_BoolDefaultUnlessAnnotated ==
    (Built /\ param_info.default \in {PyBool(TRUE), PyBool(FALSE)}) =>
        /\ ~parameter.required
        /\ parameter.default = param_info.default
        /\ parameter.type = IF HasTypeAnnotation(param_info) THEN param_info.annotation.type ELSE "bool"

\* a parameter with default False and an annotation that is no type: bool
C6_Witness ==
    /\ Built
    /\ param_info.default = PyBool(FALSE)
    /\ param_info.annotation = OtherAnnotation
    /\ parameter.type = "bool"
    /\ parameter.default = PyBool(FALSE)

\* C7 as stated: for a parameter that is not *args, required, "default is
\* None" and "no default in the signature" are equivalent; *args is not
\* required and has default [].
C7_RequiredIffNoneDefault ==
    Built =>
        IF param_info.kind = "VAR_POSITIONAL"
        THEN ~parameter.required /\ parameter.default = PyList(<<>>)
        ELSE /\ parameter.required <=> (parameter.default = PyNone)
             /\ parameter.required <=> (param_info.default = EMPTY)

\* C7 amended: for a parameter that is not *args, required is equivalent to
\* "no default in the signature"; a required parameter has default None, a
\* parameter that is not required has the default of the signature, which may
\* be None; *args is not required and has default [].
C7_RequiredIffNoDefault ==
    Built =>
        IF param_info.kind = "VAR_POSITIONAL"
        THEN ~parameter.required /\ parameter.default = PyList(<<>>)
        ELSE /\ parameter.required <=> (param_info.default = EMPTY)
             /\ parameter.required => parameter.default = PyNone
             /\ ~parameter.required => parameter.default = param_info.default

\* a parameter declared with default None: not required, default None
C7_Witness ==
    /\ Built
    /\ param_info.kind # "VAR_POSITIONAL"
    /\ param_info.default = PyNone
    /\ ~parameter.required
    /\ parameter.default = PyNone

----------------------------------------------------------------------------
(* Properties of Command, under SpecCmd                                      *)

Derived == command.parameters.exc = "none"

\* C8 as stated: the parameters of a command are in the order of the
\* signature, at most one has type _VarArgs, and that one is the last.
C8_VarArgsLast ==
    Derived =>
        /\ Len(command.parameters.ps) = Len(command.func.sig)
        /\ \A i \in 1..Len(command.parameters.ps) :
              command.parameters.ps[i].name = command.func.sig[i].name
        /\ Cardinality({i \in 1..Len(command.parameters.ps) :
                          command.parameters.ps[i].type = "_VarArgs"}) <= 1
        /\ \A i \in 1..Len(command.parameters.ps) :
              command.parameters.ps[i].type = "_VarArgs" => i = Len(command.parameters.ps)

\* C8 amended: the parameters of a command are in the order of the signature,
\* at most one has type _VarArgs; the parameters before it are positional and
\* those after it, if any, are keyword-only.
C8_VarArgsBeforeKeywordOnly ==
    Derived =>
        /\ Len(command.parameters.ps) = Len(command.func.sig)
        /\ \A i \in 1..Len(command.parameters.ps) :
              command.parameters.ps[i].name = command.func.sig[i].name
        /\ Cardinality({i \in 1..Len(command.parameters.ps) :
                          command.parameters.ps[i].type = "_VarArgs"}) <= 1
        /\ \A i \in 1..Len(command.parameters.ps) :
              command.parameters.ps[i].type = "_VarArgs" =>
                  /\ \A j \in 1..(i - 1) : IsPositional(command.func.sig[j].kind)
                  /\ \A j \in (i + 1)..Len(command.parameters.ps) :
                        command.func.sig[j].kind = "KEYWORD_ONLY"

\* the parameters of f(a, *b, c=5): _VarArgs in the middle
C8_Witness ==
    /\ Derived
    /\ Len(command.parameters.ps) = 3
    /\ command.parameters.ps[2].type = "_VarArgs"
    /\ command.parameters.ps[3].name = ParamName(3)
    /\ ~command.parameters.ps[3].required

\* C4: the call func(*args, **kwargs) with the result of split_parameters
\* binds every formal parameter to its value of the flat mapping.
C4_CallBindsMapping ==
    call # NoCall =>
        /\ call.exc = "none"
        /\ \A i \in 1..Len(command.func.sig) :
              IF command.func.sig[i].kind = "VAR_POSITIONAL"
              THEN call.bound[i].items = params[command.func.sig[i].name].items
              ELSE call.bound[i] = params[command.func.sig[i].name]

\* C10: args is the values of the required parameters in declaration order,
\* then the elements of the value of *args; kwargs is the values of the
\* parameters that are neither required nor *args; no other key of the mapping
\* is in either.
C10_SplitParameters ==
    split.exc = "none" =>
        LET ps == command.parameters.ps
            req == {i \in 1..Len(ps) : ps[i].required}
            var == {i \in 1..Len(ps) : ps[i].type = "_VarArgs"}
            kw == {ps[i].name : i \in (1..Len(ps)) \ (req \cup var)}
        IN  /\ Len(split.args) >= Cardinality(req)
            /\ \A i \in req : split.args[Cardinality({j \in req : j <= i})] = params[ps[i].name]
            /\ var = {} => Len(split.args) = Cardinality(req)
            /\ \A i \in var :
                  SubSeq(split.args, Cardinality(req) + 1, Len(split.args)) = params[ps[i].name].items
            /\ DOMAIN split.kwargs = kw
            /\ \A n \in kw : split.kwargs[n] = params[n]
            /\ VersionKey \in DOMAIN params /\ VersionKey \notin DOMAIN split.kwargs

\* f(a, b, c=5, *d) with {a: 1, b: 2, c: 7, d: [9, 10]}: ([1, 2, 9, 10], {c: 7})
C10_Witness ==
    /\ split.exc = "none"
    /\ Len(command.func.sig) = 4
    /\ command.func.sig[3].default = PyInt(5)
    /\ command.func.sig[4].kind = "VAR_POSITIONAL"
    /\ params[ParamName(1)] = PyInt(1)
    /\ params[ParamName(2)] = PyInt(2)
    /\ params[ParamName(3)] = PyInt(7)
    /\ params[ParamName(4)] = PyList(<<PyInt(9), PyInt(10)>>)
    /\ split.args = <<PyInt(1), PyInt(2), PyInt(9), PyInt(10)>>
    /\ DOMAIN split.kwargs = {ParamName(3)}
    /\ split.kwargs[ParamName(3)] = PyInt(7)

====
